---- MODULE Spec2Model ----
(***************************************************************************)
(* LEDBlink.cpp (ESP8266 IoT SDK sample): user_init configures GPIO1 as an *)
(* output driven low and arms a repeating software timer; TimerFunction,   *)
(* the timer's callback, counts a tick and inverts the level of GPIO1.     *)
(*                                                                         *)
(* user_init and TimerFunction are modelled statement by statement: pc is  *)
(* the line of user_init that runs next, and running is the stack of       *)
(* TimerFunction activations, each held as the line it runs next.          *)
(***************************************************************************)
EXTENDS Integers, Sequences, FiniteSets, TLC

\* Width of the modelled slice of the GPIO_OUT / GPIO_ENABLE registers
\* (bits 0 .. RegBits-1; bit 1 is the LED pin).
RegBits == 3

\* Width of the tick counter. The target's int has 32 bits; the model keeps
\* the two's-complement wraparound at this width so that it is reached.
IntBits == 3

\* BIT1 of the SDK headers: the mask of GPIO1.
BIT1 == 2

\* FUNC_GPIO1: the function-select value routing GPIO1 to the U0TXD pad.
FUNC_GPIO1 == 3

\* The period handed to os_timer_arm: a placeholder the generator replaces.
DELAYMSEC == "$$com.sysprogs.esp8266.ledblink.DELAYMSEC$$"

VARIABLES
    pc,          \* user_init: the line that runs next, "done" once it returned
    ret,         \* user_init's return value: <<>> until it returns, then <<v>>
    gpio_out,    \* GPIO_OUT register (GPIO_OUT_ADDRESS)
    gpio_enable, \* GPIO_ENABLE register
    mux,         \* function select of PERIPHS_IO_MUX_U0TXD_U
    s_Timer,     \* the os_timer_t: callback, argument, armed, period, repeat
    s_Tick,      \* the tick counter
    running,     \* stack of TimerFunction activations, innermost first
    tick0,       \* s_Tick as user_init found it
    nCalls       \* TimerFunction invocations so far, modulo 2^IntBits

vars == <<pc, ret, gpio_out, gpio_enable, mux, s_Timer, s_Tick, running,
          tick0, nCalls>>

RECURSIVE Pow2(_)
Pow2(n) == IF n = 0 THEN 1 ELSE 2 * Pow2(n - 1)

RegValues == 0 .. (Pow2(RegBits) - 1)

INT_MAX == Pow2(IntBits - 1) - 1

INT_MIN == 0 - Pow2(IntBits - 1)

\* a & b on register values
RECURSIVE BitAnd(_, _)
BitAnd(a, b) ==
    IF a = 0 \/ b = 0 THEN 0
    ELSE (a % 2) * (b % 2) + 2 * BitAnd(a \div 2, b \div 2)

\* a | b on register values
BitOr(a, b) == a + b - BitAnd(a, b)

\* a & ~m on register values
BitClear(a, m) == a - BitAnd(a, m)

\* Mutant of IncInt: the counter sticks at INT_MAX instead of wrapping.
IncInt_Saturating(x) == IF x = INT_MAX THEN INT_MAX ELSE x + 1

\* s_Tick++ on an int: the add instruction wraps at the counter's width
IncInt(x) == IF x = INT_MAX THEN INT_MIN ELSE x + 1

\* an integer reduced to the counter's range, two's complement
WrapInt(n) == ((n - INT_MIN) % Pow2(IntBits)) + INT_MIN

\* The level of GPIO1 in the output register
Pin1High == BitAnd(gpio_out, BIT1) # 0

\* gpio_output_set(set_mask, clear_mask, enable_mask, disable_mask): the
\* masks go to the write-1-to-set / write-1-to-clear registers of GPIO_OUT
\* and GPIO_ENABLE.
GpioOutAfter(out, set_mask, clear_mask) ==
    BitClear(BitOr(out, set_mask), clear_mask)

GpioEnableAfter(en, enable_mask, disable_mask) ==
    BitClear(BitOr(en, enable_mask), disable_mask)

gpio_output_set(set_mask, clear_mask, enable_mask, disable_mask) ==
    /\ gpio_out' = GpioOutAfter(gpio_out, set_mask, clear_mask)
    /\ gpio_enable' = GpioEnableAfter(gpio_enable, enable_mask, disable_mask)

\* After reset: the statics are zero-initialised (s_Timer) or hold their
\* initialiser (s_Tick = 0); the GPIO registers and the pad's function are
\* whatever reset and the boot ROM left.
Init ==
    /\ pc = "L41"
    /\ ret = <<>>
    /\ gpio_out \in RegValues
    /\ gpio_enable \in RegValues
    /\ mux \in 0 .. FUNC_GPIO1
    /\ s_Timer = [fn |-> "NULL", arg |-> "NULL", armed |-> FALSE,
                  period |-> "0", repeat |-> FALSE]
    /\ s_Tick = 0
    /\ running = <<>>
    /\ tick0 = 0
    /\ nCalls = 0

----------------------------------------------------------------------------
\* user_init, line by line

\* gpio_init(); (SDK: touches neither GPIO_OUT, GPIO_ENABLE nor the pad)
UserInit_L41 ==
    /\ pc = "L41"
    /\ pc' = "L43"
    /\ tick0' = s_Tick
    /\ UNCHANGED <<ret, gpio_out, gpio_enable, mux, s_Timer, s_Tick, running,
                   nCalls>>

\* PIN_FUNC_SELECT(PERIPHS_IO_MUX_U0TXD_U, FUNC_GPIO1);
UserInit_L43 ==
    /\ pc = "L43"
    /\ mux' = FUNC_GPIO1
    /\ pc' = "L45"
    /\ UNCHANGED <<ret, gpio_out, gpio_enable, s_Timer, s_Tick, running,
                   tick0, nCalls>>

\* Mutant of UserInit_L45: the initial level is written HIGH.
UserInit_L45_DrivesHigh ==
    /\ pc = "L45"
    /\ gpio_output_set(BIT1, 0, BIT1, 0)
    /\ pc' = "L46"
    /\ UNCHANGED <<ret, mux, s_Timer, s_Tick, running, tick0, nCalls>>

\* Mutant of UserInit_L45: the gpio_output_set call is left out.
UserInit_L45_Skipped ==
    /\ pc = "L45"
    /\ pc' = "L46"
    /\ UNCHANGED <<ret, gpio_out, gpio_enable, mux, s_Timer, s_Tick, running,
                   tick0, nCalls>>

\* gpio_output_set(0, BIT1, BIT1, 0);
UserInit_L45 ==
    /\ pc = "L45"
    /\ gpio_output_set(0, BIT1, BIT1, 0)
    /\ pc' = "L46"
    /\ UNCHANGED <<ret, mux, s_Timer, s_Tick, running, tick0, nCalls>>

\* os_timer_setfn(&s_Timer, TimerFunction, NULL);
UserInit_L46 ==
    /\ pc = "L46"
    /\ s_Timer' = [s_Timer EXCEPT !.fn = "TimerFunction", !.arg = "NULL"]
    /\ pc' = "L47"
    /\ UNCHANGED <<ret, gpio_out, gpio_enable, mux, s_Tick, running, tick0,
                   nCalls>>

\* Mutant of UserInit_L47: os_timer_arm(&s_Timer, DELAYMSEC, 0), one shot.
UserInit_L47_OneShot ==
    /\ pc = "L47"
    /\ s_Timer' = [s_Timer EXCEPT !.armed = TRUE, !.period = DELAYMSEC,
                                  !.repeat = FALSE]
    /\ pc' = "L49"
    /\ UNCHANGED <<ret, gpio_out, gpio_enable, mux, s_Tick, running, tick0,
                   nCalls>>

\* os_timer_arm(&s_Timer, DELAYMSEC, 1);
UserInit_L47 ==
    /\ pc = "L47"
    /\ s_Timer' = [s_Timer EXCEPT !.armed = TRUE, !.period = DELAYMSEC,
                                  !.repeat = TRUE]
    /\ pc' = "L49"
    /\ UNCHANGED <<ret, gpio_out, gpio_enable, mux, s_Tick, running, tick0,
                   nCalls>>

\* Mutant of UserInit_L49: return 1.
UserInit_L49_ReturnsOne ==
    /\ pc = "L49"
    /\ ret' = <<1>>
    /\ pc' = "done"
    /\ UNCHANGED <<gpio_out, gpio_enable, mux, s_Timer, s_Tick, running,
                   tick0, nCalls>>

\* return 0;
UserInit_L49 ==
    /\ pc = "L49"
    /\ ret' = <<0>>
    /\ pc' = "done"
    /\ UNCHANGED <<gpio_out, gpio_enable, mux, s_Timer, s_Tick, running,
                   tick0, nCalls>>

----------------------------------------------------------------------------
\* The timer subsystem and TimerFunction

\* Mutant of Dispatch: the callback is called again while an activation is
\* still running (one level of nesting).
Dispatch_Reentrant ==
    /\ pc = "done"
    /\ s_Timer.armed
    /\ s_Timer.fn = "TimerFunction"
    /\ Len(running) < 2
    /\ running' = <<"L24">> \o running
    /\ s_Timer' = [s_Timer EXCEPT !.armed = s_Timer.repeat]
    /\ nCalls' = (nCalls + 1) % Pow2(IntBits)
    /\ UNCHANGED <<pc, ret, gpio_out, gpio_enable, mux, s_Tick, tick0>>

\* The SDK's timer task calls the callback of an armed timer whose period
\* elapsed. It runs from the system's task loop: only after user_init
\* returned, and never while a callback is still running. A timer armed
\* without the repeat flag is disarmed by its expiry.
Dispatch ==
    /\ pc = "done"
    /\ s_Timer.armed
    /\ s_Timer.fn = "TimerFunction"
    /\ running = <<>>
    /\ running' = <<"L24">>
    /\ s_Timer' = [s_Timer EXCEPT !.armed = s_Timer.repeat]
    /\ nCalls' = (nCalls + 1) % Pow2(IntBits)
    /\ UNCHANGED <<pc, ret, gpio_out, gpio_enable, mux, s_Tick, tick0>>

\* s_Tick++;
TF_L24 ==
    /\ running # <<>>
    /\ Head(running) = "L24"
    /\ s_Tick' = IncInt(s_Tick)
    /\ running' = <<"L29">> \o Tail(running)
    /\ UNCHANGED <<pc, ret, gpio_out, gpio_enable, mux, s_Timer, tick0,
                   nCalls>>

\* Mutant of TF_L29: the branch is taken from the parity of s_Tick, a
\* software-held copy of the pin state, instead of from GPIO_OUT.
TF_L29_FromTickParity ==
    /\ running # <<>>
    /\ Head(running) = "L29"
    /\ running' = <<IF s_Tick % 2 = 0 THEN "L31" ELSE "L35">>
                    \o Tail(running)
    /\ UNCHANGED <<pc, ret, gpio_out, gpio_enable, mux, s_Timer, s_Tick,
                   tick0, nCalls>>

\* if (GPIO_REG_READ(GPIO_OUT_ADDRESS) & BIT1)
TF_L29 ==
    /\ running # <<>>
    /\ Head(running) = "L29"
    /\ running' = <<IF BitAnd(gpio_out, BIT1) # 0 THEN "L31" ELSE "L35">>
                    \o Tail(running)
    /\ UNCHANGED <<pc, ret, gpio_out, gpio_enable, mux, s_Timer, s_Tick,
                   tick0, nCalls>>

\* Mutant of TF_L31: the enable and disable masks are swapped.
TF_L31_DisablesOutput ==
    /\ running # <<>>
    /\ Head(running) = "L31"
    /\ gpio_output_set(0, BIT1, 0, BIT1)
    /\ running' = Tail(running)
    /\ UNCHANGED <<pc, ret, mux, s_Timer, s_Tick, tick0, nCalls>>

\* gpio_output_set(0, BIT1, BIT1, 0);  and return
TF_L31 ==
    /\ running # <<>>
    /\ Head(running) = "L31"
    /\ gpio_output_set(0, BIT1, BIT1, 0)
    /\ running' = Tail(running)
    /\ UNCHANGED <<pc, ret, mux, s_Timer, s_Tick, tick0, nCalls>>

\* Mutant of TF_L35: the else branch writes LOW as well.
TF_L35_WritesLow ==
    /\ running # <<>>
    /\ Head(running) = "L35"
    /\ gpio_output_set(0, BIT1, BIT1, 0)
    /\ running' = Tail(running)
    /\ UNCHANGED <<pc, ret, mux, s_Timer, s_Tick, tick0, nCalls>>

\* Mutant of TF_L35: the set mask covers BIT0 as well as BIT1.
TF_L35_WideMask ==
    /\ running # <<>>
    /\ Head(running) = "L35"
    /\ gpio_output_set(BIT1 + 1, 0, BIT1, 0)
    /\ running' = Tail(running)
    /\ UNCHANGED <<pc, ret, mux, s_Timer, s_Tick, tick0, nCalls>>

\* gpio_output_set(BIT1, 0, BIT1, 0);  and return
TF_L35 ==
    /\ running # <<>>
    /\ Head(running) = "L35"
    /\ gpio_output_set(BIT1, 0, BIT1, 0)
    /\ running' = Tail(running)
    /\ UNCHANGED <<pc, ret, mux, s_Timer, s_Tick, tick0, nCalls>>

\* The environment: between two callbacks something other than this program
\* (a reset artifact, another writer) changes the level of GPIO1.
EnvDisturb ==
    /\ pc = "done"
    /\ running = <<>>
    /\ gpio_out' = IF Pin1High THEN BitClear(gpio_out, BIT1)
                               ELSE BitOr(gpio_out, BIT1)
    /\ UNCHANGED <<pc, ret, gpio_enable, mux, s_Timer, s_Tick, running,
                   tick0, nCalls>>

Next ==
    \/ UserInit_L41
    \/ UserInit_L43
    \/ UserInit_L45
    \/ UserInit_L46
    \/ UserInit_L47
    \/ UserInit_L49
    \/ Dispatch
    \/ TF_L24
    \/ TF_L29
    \/ TF_L31
    \/ TF_L35

NextEnv ==
    \/ Next
    \/ EnvDisturb

\* The program alone: no other writer to the GPIO registers.
Spec == Init /\ [][Next]_vars

\* The program with an environment that disturbs GPIO1 between callbacks.
SpecEnv == Init /\ [][NextEnv]_vars

\* The program alone on a running system: the boot sequence runs user_init
\* to its end, the timer task keeps dispatching an armed timer, and a
\* callback that started runs to its end.
LiveSpec == Init /\ [][Next]_vars /\ WF_vars(Next)

----------------------------------------------------------------------------
\* Vocabulary of the properties

\* No callback is running and user_init has returned: the state between
\* two timer periods.
Quiescent == pc = "done" /\ running = <<>>

\* A step of TimerFunction: some activation exists and the step is not a
\* stuttering one.
InCallback == running # <<>>

\* Activations that were dispatched and have not yet counted their tick
Pending == Cardinality({i \in DOMAIN running : running[i] = "L24"})

Pin1Enabled == BitAnd(gpio_enable, BIT1) # 0

OtherBits(reg) == BitClear(reg, BIT1)

----------------------------------------------------------------------------
\* C1. Alternation: with no other writer to GPIO_OUT, after N completed
\* TimerFunction invocations following user_init, GPIO1 is LOW when N is
\* even and HIGH when N is odd.
C1_Alternation == Quiescent => (Pin1High <=> (nCalls % 2 = 1))

\* Three invocations after user_init: the pin is HIGH.
C1_Witness ==
    Quiescent /\ ret = <<0>> /\ nCalls = 3 /\ s_Tick = 3 /\ Pin1High

\* C2. The step by which user_init returns leaves GPIO1 LOW and s_Tick 0,
\* with no callback run yet, whatever level GPIO1 had at reset.
C2_InitLeavesLowAndZero ==
    [][(pc = "L49" /\ pc' = "done")
         => (~Pin1High' /\ s_Tick' = 0 /\ running' = <<>> /\ nCalls' = 0)]_vars

\* user_init has just returned: nothing dispatched yet, other register
\* bits as reset left them.
C2_Witness ==
    /\ Quiescent /\ ret = <<0>> /\ nCalls = 0
    /\ ~Pin1High /\ s_Tick = 0 /\ OtherBits(gpio_out) # 0

\* C3. Monotonic counting: user_init leaves s_Tick alone, and after N
\* invocations that executed their increment s_Tick is its value before
\* user_init plus N, reduced to the counter's two's-complement range.
C3_TickCounts ==
    /\ s_Tick = WrapInt(tick0 + nCalls - Pending)
    /\ (pc # "done" => s_Tick = tick0)

\* The counter has wrapped: INT_MAX + 1 invocations after user_init.
C3_Witness == Quiescent /\ s_Tick = INT_MIN /\ tick0 = 0

\* C7. user_init cannot fail: whenever it has returned, it returned 0, and
\* by then the pad is routed to GPIO1, the callback registered and the
\* timer armed; before that it has not returned at all.
C7_InitReturnsZero ==
    /\ (pc = "done" =>
          /\ ret = <<0>>
          /\ mux = FUNC_GPIO1
          /\ Pin1Enabled
          /\ s_Timer.fn = "TimerFunction"
          /\ s_Timer.armed)
    /\ (pc # "done" => ret = <<>>)

\* user_init returned, no callback has run yet.
C7_Witness == pc = "done" /\ ret = <<0>> /\ s_Timer.armed /\ nCalls = 0

\* C4. Toggle determinism and self-correction: the branch TimerFunction
\* takes is decided by the level GPIO_OUT holds when it is read, whatever
\* s_Tick is, and the write that ends the invocation leaves GPIO1 at the
\* negation of that level; so a level the environment changed between two
\* invocations is the one the next invocation negates.
C4_ToggleFromHardware ==
    /\ [][(InCallback /\ Head(running) = "L29" /\ running' # running)
            => Head(running') = (IF Pin1High THEN "L31" ELSE "L35")]_vars
    /\ [][(InCallback /\ Head(running) = "L31" /\ running' # running)
            => (Pin1High /\ ~Pin1High')]_vars
    /\ [][(InCallback /\ Head(running) = "L35" /\ running' # running)
            => (~Pin1High /\ Pin1High')]_vars

\* An odd-numbered invocation that read HIGH: without a disturbance the
\* odd invocations read LOW, so the level read is a disturbed one, on its
\* way to being negated.
C4_Witness ==
    running = <<"L31">> /\ nCalls = 3 /\ s_Tick = 3 /\ Pin1High

\* C5. No cancellation: a timer that is armed stays armed, repeating and
\* bound to the same callback in every later state, user_init once returned
\* always leaves a step to take, and on a system that keeps running GPIO1
\* is HIGH infinitely often and LOW infinitely often.
C5_TogglesForever ==
    /\ [][s_Timer.armed =>
            (s_Timer'.armed /\ s_Timer'.repeat /\ s_Timer'.fn = s_Timer.fn)]_vars
    /\ [](pc = "done" => ENABLED <<Next>>_vars)
    /\ []<>Pin1High
    /\ []<>(~Pin1High)

\* The timer is still armed after the counter went round once.
C5_Witness ==
    /\ Quiescent /\ s_Timer.armed /\ s_Timer.repeat
    /\ s_Tick = -1 /\ nCalls = Pow2(IntBits) - 1 /\ Pin1High

\* C6. Serialized callback safety: at most one TimerFunction activation
\* exists at a time; the level it read is still the level of GPIO1 when it
\* writes, so its read and write act as one toggle; and every completed
\* invocation inverts GPIO1.
C6_SerializedToggle ==
    /\ [](Len(running) <= 1)
    /\ []((InCallback /\ Head(running) = "L31") => Pin1High)
    /\ []((InCallback /\ Head(running) = "L35") => ~Pin1High)
    /\ [][(InCallback /\ Len(running') < Len(running))
            => (Pin1High' <=> ~Pin1High)]_vars

\* The second invocation is between its read (HIGH) and its write.
C6_Witness ==
    running = <<"L31">> /\ nCalls = 2 /\ s_Tick = 2 /\ Pin1High

\* C8. Initialization ordering: pad routed to GPIO1, then GPIO1 driven LOW
\* as an enabled output, then the callback registered, then the timer
\* armed. An armed timer has its callback registered, a registered callback
\* finds the pin configured, the pin is LOW from its configuration until
\* user_init returns, and no TimerFunction invocation happens before that.
C8_InitOrdering ==
    /\ (s_Timer.armed =>
          (s_Timer.fn = "TimerFunction" /\ pc \in {"L49", "done"}))
    /\ (s_Timer.fn = "TimerFunction" =>
          (mux = FUNC_GPIO1 /\ Pin1Enabled /\ pc \in {"L47", "L49", "done"}))
    /\ (pc \in {"L46", "L47", "L49"} =>
          (mux = FUNC_GPIO1 /\ Pin1Enabled /\ ~Pin1High))
    /\ (pc = "L45" => mux = FUNC_GPIO1)
    /\ (pc # "done" => (running = <<>> /\ nCalls = 0 /\ s_Tick = tick0))

\* The timer is armed and user_init has not returned yet.
C8_Witness ==
    /\ pc = "L49" /\ s_Timer.armed /\ s_Timer.fn = "TimerFunction"
    /\ mux = FUNC_GPIO1 /\ Pin1Enabled /\ ~Pin1High /\ running = <<>>

\* C9. Frame of the callback: a step of TimerFunction changes nothing but
\* bit 1 of GPIO_OUT and s_Tick: the other bits of GPIO_OUT, GPIO_ENABLE,
\* the pad's function, the timer's callback and arming, and user_init's
\* state stay as they were.
C9_CallbackFrame ==
    [][InCallback =>
         /\ OtherBits(gpio_out') = OtherBits(gpio_out)
         /\ gpio_enable' = gpio_enable
         /\ mux' = mux
         /\ s_Timer' = s_Timer
         /\ pc' = pc
         /\ ret' = ret]_vars

\* One invocation done, with other bits of GPIO_OUT set and another pin's
\* output enabled: they survived it.
C9_Witness ==
    /\ Quiescent /\ nCalls = 1 /\ s_Tick = 1 /\ Pin1High
    /\ OtherBits(gpio_out) # 0 /\ OtherBits(gpio_enable) # 0

\* C10. Output-enable invariant: once user_init has made its
\* gpio_output_set call GPIO1 is an enabled output in every state, and no
\* step of TimerFunction disables the output of any pin.
C10_OutputEnabled ==
    /\ [](pc \notin {"L41", "L43", "L45"} => Pin1Enabled)
    /\ [][InCallback => BitAnd(gpio_enable, gpio_enable') = gpio_enable]_vars

\* Two invocations done; GPIO1 and another pin are enabled outputs.
C10_Witness ==
    /\ Quiescent /\ nCalls = 2 /\ Pin1Enabled /\ ~Pin1High
    /\ OtherBits(gpio_enable) # 0

====
